---- MODULE Spec2Model ----
(***************************************************************************)
(* Model of NOSYNC_sensor_push_Server.py: the SensorMonitor sweep loop.    *)
(*                                                                         *)
(* Tables: sources (the heartbeat registry) and offline_sensors (the       *)
(* offline sensor store).  One monitor process runs main_loop; every sweep *)
(* upserts stale sensors, deletes recovered ones, reads offline_sensors    *)
(* into a DataFrame, advances the notify_* columns while sending the       *)
(* notifications, and writes the DataFrame back in one transaction.        *)
(* Time is in whole minutes, as TIMESTAMPDIFF(MINUTE, ...) reports it.     *)
(* The opaque columns service and master_name are copied by the upsert and *)
(* read by nothing; they are not carried in the rows.                      *)
(***************************************************************************)
EXTENDS Integers, Sequences, FiniteSets, TLC

VARIABLES
    now,              \* NOW() of the database server, minutes
    sources,          \* registry: id -> [master_id, last_heartbeat]
    offline_sensors,  \* the store: a set of rows
    df,               \* the DataFrame held by who_to_send_to
    pc,               \* position of the monitor process
    sent,             \* send_sms/send_email calls per row key and column, this episode
    rows_deleted,     \* the rows del_offline_sensors has deleted so far
    errors,           \* steps of the running sweep that logged an error
    raced,            \* the registry changed between the upsert and the delete of this sweep
    used,             \* how many errors, failures, stops and registry changes have happened
    undelivered       \* the notifications of the last dispatch whose send failed

vars == <<now, sources, offline_sensors, df, pc, sent, rows_deleted, errors, raced, used,
          undelivered>>

----------------------------------------------------------------------------
(* Bounds of the model *)

MaxTime == 40          \* Spec: the clock stops here
MaxEvents == 2         \* Spec: raised errors, failed dispatches, process stops and registry changes
EpisodeEnd == 1450     \* SpecEpisode: the clock stops here
RegularWeeks == 3      \* SpecRegular: weeks of regular sweeps
MaxWeekly == 2         \* SpecFn: largest weekly counter drawn

----------------------------------------------------------------------------
(* Program constants *)

OfflineMinutes == 30   \* threshold of both reconciliation statements
SweepMinutes == 5      \* time.sleep(300)
DailyPeriod == 1440
DailyCap == 7
WeeklyPeriod == 10080
inf == -1              \* float('inf'): no upper end
ColumnDefault == 0     \* value of a notify_* column the INSERT does not name
NULL == "NULL"
None == "None"

SensorIds == {1}
MasterIds == {"A", "B"}
RowKeys == SensorIds \X MasterIds

LatchKeys == {"notify_30m_primary", "notify_1hr_primary", "notify_1hr_secondary",
              "notify_3hr_primary", "notify_3hr_secondary",
              "notify_6hr_primary", "notify_6hr_secondary",
              "notify_12hr_primary", "notify_12hr_secondary"}
DailyKeys == {"notify_daily_primary", "notify_daily_secondary"}
WeeklyKeys == {"notify_weekly_primary", "notify_weekly_secondary"}
NotifyKeys == LatchKeys \cup DailyKeys \cup WeeklyKeys

intervals ==
    << [start |-> 30,    end |-> 60,    primary_key |-> "notify_30m_primary",    secondary_key |-> None],
       [start |-> 60,    end |-> 180,   primary_key |-> "notify_1hr_primary",    secondary_key |-> "notify_1hr_secondary"],
       [start |-> 180,   end |-> 360,   primary_key |-> "notify_3hr_primary",    secondary_key |-> "notify_3hr_secondary"],
       [start |-> 360,   end |-> 720,   primary_key |-> "notify_6hr_primary",    secondary_key |-> "notify_6hr_secondary"],
       [start |-> 720,   end |-> 1440,  primary_key |-> "notify_12hr_primary",   secondary_key |-> "notify_12hr_secondary"],
       [start |-> 1440,  end |-> 10080, primary_key |-> "notify_daily_primary",  secondary_key |-> "notify_daily_secondary"],
       [start |-> 10080, end |-> inf,   primary_key |-> "notify_weekly_primary", secondary_key |-> "notify_weekly_secondary"] >>

----------------------------------------------------------------------------
(* Rows *)

KeyOf(row) == <<row.id_in_sources, row.master_id>>

\* TIMESTAMPDIFF(MINUTE, last_heartbeat, NOW())
TimestampDiff(last_heartbeat, t) == t - last_heartbeat

\* The unique key of offline_sensors that ON DUPLICATE KEY and the joins go by.
DuplicateKey(row, id, master_id) ==
    row.id_in_sources = id /\ row.master_id = master_id

\* The values the INSERT gives the columns it does not name.
DefaultColumns == [k \in NotifyKeys |-> ColumnDefault]

\* InsertRow with the 30-minute latch written as already notified
InsertRowNotified(id, t) ==
    [k \in NotifyKeys \cup {"id_in_sources", "master_id", "last_heartbeat",
                            "minutes_since_last_heartbeat"} |->
        CASE k = "id_in_sources" -> id
          [] k = "master_id" -> sources[id].master_id
          [] k = "last_heartbeat" -> sources[id].last_heartbeat
          [] k = "minutes_since_last_heartbeat" ->
                 TimestampDiff(sources[id].last_heartbeat, t)
          [] k = "notify_30m_primary" -> 1
          [] OTHER -> DefaultColumns[k]]

\* The row the INSERT ... SELECT makes of sources row id at time t.
InsertRow(id, t) ==
    [k \in NotifyKeys \cup {"id_in_sources", "master_id", "last_heartbeat",
                            "minutes_since_last_heartbeat"} |->
        CASE k = "id_in_sources" -> id
          [] k = "master_id" -> sources[id].master_id
          [] k = "last_heartbeat" -> sources[id].last_heartbeat
          [] k = "minutes_since_last_heartbeat" ->
                 TimestampDiff(sources[id].last_heartbeat, t)
          [] OTHER -> DefaultColumns[k]]

\* UpdateRow as REPLACE INTO would do it: the row is written anew
UpdateRowReplace(row, id, t) == InsertRow(id, t)

\* UpdateRow with the elapsed minutes counted up by one sweep interval instead
\* of computed from last_heartbeat
UpdateRowIncrement(row, id, t) ==
    [row EXCEPT !["master_id"] = sources[id].master_id,
                !["last_heartbeat"] = sources[id].last_heartbeat,
                !["minutes_since_last_heartbeat"] = @ + 5]

\* ON DUPLICATE KEY UPDATE: the columns the statement assigns.
UpdateRow(row, id, t) ==
    [row EXCEPT !["master_id"] = sources[id].master_id,
                !["last_heartbeat"] = sources[id].last_heartbeat,
                !["minutes_since_last_heartbeat"] =
                    TimestampDiff(sources[id].last_heartbeat, t)]

----------------------------------------------------------------------------
(* check_and_notify *)

StartsWithDaily(key) == key \in DailyKeys
StartsWithWeekly(key) == key \in WeeklyKeys

\* Mask with the lower end of the window taken inclusive
MaskFromStart(row, iv) ==
    /\ row["minutes_since_last_heartbeat"] >= iv.start
    /\ (iv.end = inf \/ row["minutes_since_last_heartbeat"] <= iv.end)

\* mask: start < minutes <= end
Mask(row, iv) ==
    /\ row["minutes_since_last_heartbeat"] > iv.start
    /\ (iv.end = inf \/ row["minutes_since_last_heartbeat"] <= iv.end)

\* NotifyMask with the latch test (df[key] == 0) left out
NotifyMaskNoLatch(row, iv, key) ==
    IF StartsWithDaily(key)
    THEN /\ Mask(row, iv)
         /\ row[key] < DailyCap
         /\ row["minutes_since_last_heartbeat"] >= DailyPeriod * (row[key] + 1)
    ELSE IF StartsWithWeekly(key)
    THEN /\ Mask(row, iv)
         /\ row["minutes_since_last_heartbeat"] >= WeeklyPeriod * (row[key] + 1)
    ELSE Mask(row, iv)

\* NotifyMask with the weekly columns falling through to the latch branch
NotifyMaskWeeklyLatch(row, iv, key) ==
    IF StartsWithDaily(key)
    THEN /\ Mask(row, iv)
         /\ row[key] < DailyCap
         /\ row["minutes_since_last_heartbeat"] >= DailyPeriod * (row[key] + 1)
    ELSE Mask(row, iv) /\ row[key] = 0

\* notify_mask of one column for one row
NotifyMask(row, iv, key) ==
    IF StartsWithDaily(key)
    THEN /\ Mask(row, iv)
         /\ row[key] < DailyCap
         /\ row["minutes_since_last_heartbeat"] >= DailyPeriod * (row[key] + 1)
    ELSE IF StartsWithWeekly(key)
    THEN /\ Mask(row, iv)
         /\ row["minutes_since_last_heartbeat"] >= WeeklyPeriod * (row[key] + 1)
    ELSE Mask(row, iv) /\ row[key] = 0

\* One pass of the inner loop body for one row: df.loc[notify_mask, key] += 1
\* and one send_sms + send_email for the row.  acc = [row, fired].
NotifyKey(acc, iv, key) ==
    IF key = None THEN acc
    ELSE IF NotifyMask(acc.row, iv, key)
    THEN [row |-> [acc.row EXCEPT ![key] = @ + 1], fired |-> acc.fired \cup {key}]
    ELSE acc

\* The outer loop over intervals i..7, the inner over [primary_key, secondary_key].
RECURSIVE NotifyFrom(_, _)
NotifyFrom(acc, i) ==
    IF i > Len(intervals) THEN acc
    ELSE NotifyFrom(NotifyKey(NotifyKey(acc, intervals[i], intervals[i].primary_key),
                              intervals[i], intervals[i].secondary_key), i + 1)

\* check_and_notify on one row: the returned row and the columns notified.
CheckRow(row) == NotifyFrom([row |-> row, fired |-> {}], 1)

\* The DataFrame check_and_notify returns.
check_and_notify(frame) == {CheckRow(row).row : row \in frame}

\* The send_sms and send_email calls check_and_notify makes on a DataFrame,
\* added to the count kept per row key and column.
Dispatch(counts, frame) ==
    [k \in RowKeys |-> [key \in NotifyKeys |->
        counts[k][key] +
        Cardinality({row \in frame : KeyOf(row) = k /\ key \in CheckRow(row).fired})]]

----------------------------------------------------------------------------
(* The reconciliation statements and the batch update, as functions of the
   tables *)

\* sources rows the INSERT ... SELECT selects at time t
Stale(t) ==
    {id \in SensorIds :
        /\ TimestampDiff(sources[id].last_heartbeat, t) > OfflineMinutes
        /\ sources[id].master_id # NULL}

\* INSERT ... SELECT ... ON DUPLICATE KEY UPDATE at time t
Upsert(table, t) ==
    LET hit(row) == {id \in Stale(t) : DuplicateKey(row, id, sources[id].master_id)}
    IN  {IF hit(row) = {} THEN row ELSE UpdateRow(row, CHOOSE id \in hit(row) : TRUE, t) :
            row \in table}
        \cup
        {InsertRow(id, t) : id \in {i \in Stale(t) :
            \A row \in table : ~DuplicateKey(row, i, sources[i].master_id)}}

\* Recovered with the comparison of the test runs, "> 3000", left in
RecoveredTesting(table, t) ==
    {row \in table : \E id \in SensorIds :
        /\ DuplicateKey(row, id, sources[id].master_id)
        /\ TimestampDiff(sources[id].last_heartbeat, t) > 3000}

\* rows DELETE os FROM offline_sensors os JOIN sources s ... WHERE ... < 30 matches
Recovered(table, t) ==
    {row \in table : \E id \in SensorIds :
        /\ DuplicateKey(row, id, sources[id].master_id)
        /\ TimestampDiff(sources[id].last_heartbeat, t) < OfflineMinutes}

\* the DELETE statement at time t
Delete(table, t) == table \ Recovered(table, t)

\* One UPDATE offline_sensors SET notify_* = ... WHERE id_in_sources AND master_id
UpdateFrom(row, frame) ==
    LET hit == {d \in frame : DuplicateKey(row, d.id_in_sources, d.master_id)}
    IN  IF hit = {} THEN row
        ELSE LET d == CHOOSE x \in hit : TRUE
             IN  [k \in DOMAIN row |-> IF k \in NotifyKeys THEN d[k] ELSE row[k]]

\* the loop of UPDATE statements over df.iterrows(), committed together
BatchUpdate(table, frame) == {UpdateFrom(row, frame) : row \in table}

\* counts of a new episode: the rows the upsert inserts start from no notification
ResetInserted(counts, table, newtable) ==
    [k \in RowKeys |->
        IF (\E row \in newtable : KeyOf(row) = k) /\ ~(\E row \in table : KeyOf(row) = k)
        THEN [key \in NotifyKeys |-> 0]
        ELSE counts[k]]

----------------------------------------------------------------------------
(* The monitor process *)

Fault == used < MaxEvents
Faulted == used + 1

\* main_loop enters connect_and_execute; pyodbc.connect succeeds
Connect ==
    /\ pc = "start"
    /\ pc' = "add"
    /\ errors' = {}
    /\ raced' = FALSE
    /\ UNCHANGED <<now, sources, offline_sensors, df, sent, rows_deleted, used, undelivered>>

\* ConnectRaises with the exception escaping connect_and_execute: main_loop's
\* except Exception, outside the while, ends the loop
ConnectRaisesUncaught ==
    /\ pc = "start"
    /\ pc' = "stopped"
    /\ errors' = {"connect"}
    /\ UNCHANGED <<now, sources, offline_sensors, df, sent, rows_deleted, raced, undelivered>>

\* pyodbc.connect of connect_and_execute raises: logged, the sweep does nothing
ConnectRaises ==
    /\ pc = "start"
    /\ pc' = "sleep"
    /\ errors' = {"connect"}
    /\ UNCHANGED <<now, sources, offline_sensors, df, sent, rows_deleted, raced, undelivered>>

ConnectFail == Fault /\ ConnectRaises /\ used' = Faulted

add_offline_sensors_to_table ==
    /\ pc = "add"
    /\ offline_sensors' = Upsert(offline_sensors, now)
    /\ sent' = ResetInserted(sent, offline_sensors, offline_sensors')
    /\ pc' = "del"
    /\ UNCHANGED <<now, sources, df, rows_deleted, errors, raced, used, undelivered>>

\* pyodbc.Error inside add_offline_sensors_to_table: logged, the sweep goes on
AddFail ==
    /\ pc = "add"
    /\ Fault
    /\ pc' = "del"
    /\ errors' = errors \cup {"add"}
    /\ used' = Faulted
    /\ UNCHANGED <<now, sources, offline_sensors, df, sent, rows_deleted, raced, undelivered>>

del_offline_sensors ==
    /\ pc = "del"
    /\ offline_sensors' = Delete(offline_sensors, now)
    /\ rows_deleted' = rows_deleted \cup Recovered(offline_sensors, now)
    /\ pc' = "read"
    /\ UNCHANGED <<now, sources, df, sent, errors, raced, used, undelivered>>

\* pyodbc.Error inside del_offline_sensors: logged, the sweep goes on
DelFail ==
    /\ pc = "del"
    /\ Fault
    /\ pc' = "read"
    /\ errors' = errors \cup {"del"}
    /\ used' = Faulted
    /\ UNCHANGED <<now, sources, offline_sensors, df, sent, rows_deleted, raced, undelivered>>

\* who_to_send_to: pd.read_sql of the whole table
ReadSql ==
    /\ pc = "read"
    /\ df' = offline_sensors
    /\ pc' = "notify"
    /\ UNCHANGED <<now, sources, offline_sensors, sent, rows_deleted, errors, raced, used, undelivered>>

\* who_to_send_to: the connect or the read raises; the sweep is abandoned
ReadFail ==
    /\ pc = "read"
    /\ Fault
    /\ pc' = "sleep"
    /\ errors' = errors \cup {"read"}
    /\ used' = Faulted
    /\ UNCHANGED <<now, sources, offline_sensors, df, sent, rows_deleted, raced, undelivered>>

\* who_to_send_to: updated_df = self.check_and_notify(df); every send succeeds
CheckAndNotify ==
    /\ pc = "notify"
    /\ df' = check_and_notify(df)
    /\ sent' = Dispatch(sent, df)
    /\ undelivered' = {}
    /\ pc' = "update"
    /\ UNCHANGED <<now, sources, offline_sensors, rows_deleted, errors, raced, used>>

\* the notifications check_and_notify sends on a DataFrame: the row key, the
\* column, and the value the column had when its notify_mask was computed
Fired(frame) ==
    UNION {{[key |-> KeyOf(row), column |-> c, before |-> row[c]] :
                c \in CheckRow(row).fired} : row \in frame}

\* who_to_send_to when the dispatcher reports failure for one of the sends:
\* send_sms and send_email return nothing that check_and_notify looks at, so
\* the DataFrame is the one CheckAndNotify makes
DispatchFails ==
    /\ pc = "notify"
    /\ Fault
    /\ \E failed \in Fired(df) : undelivered' = {failed}
    /\ df' = check_and_notify(df)
    /\ sent' = Dispatch(sent, df)
    /\ pc' = "update"
    /\ used' = Faulted
    /\ UNCHANGED <<now, sources, offline_sensors, rows_deleted, errors, raced>>

\* who_to_send_to: self.update_offline_sensors(updated_df), committed
update_offline_sensors ==
    /\ pc = "update"
    /\ offline_sensors' = BatchUpdate(offline_sensors, df)
    /\ df' = {}
    /\ pc' = "sleep"
    /\ UNCHANGED <<now, sources, sent, rows_deleted, errors, raced, used, undelivered>>

\* UpdateFail with every UPDATE committed as it is executed (autocommit): the
\* statements before the one that raises stay in the table
UpdateFailPartial ==
    /\ pc = "update"
    /\ Fault
    /\ \E done \in SUBSET df : done # df /\ offline_sensors' = BatchUpdate(offline_sensors, done)
    /\ df' = {}
    /\ pc' = "sleep"
    /\ errors' = errors \cup {"update"}
    /\ used' = Faulted
    /\ UNCHANGED <<now, sources, sent, rows_deleted, raced, undelivered>>

\* update_offline_sensors: the connect or an UPDATE raises; rolled back
UpdateFail ==
    /\ pc = "update"
    /\ Fault
    /\ df' = {}
    /\ pc' = "sleep"
    /\ errors' = errors \cup {"update"}
    /\ used' = Faulted
    /\ UNCHANGED <<now, sources, offline_sensors, sent, rows_deleted, raced, undelivered>>

\* Sleep as a timer that starts the next sweep every 5 minutes wherever the
\* running one is
SleepTimer(limit) ==
    /\ pc # "stopped"
    /\ now + SweepMinutes <= limit
    /\ now' = now + SweepMinutes
    /\ pc' = "start"
    /\ UNCHANGED <<sources, offline_sensors, df, sent, rows_deleted, errors, raced, used, undelivered>>

\* main_loop: time.sleep(300), then the next sweep
Sleep(limit) ==
    /\ pc = "sleep"
    /\ now + SweepMinutes <= limit
    /\ now' = now + SweepMinutes
    /\ pc' = "start"
    /\ UNCHANGED <<sources, offline_sensors, df, sent, rows_deleted, errors, raced, used, undelivered>>

\* KeyboardInterrupt (or the process killed) at any point of the loop: the
\* exception leaves every frame, an open transaction is rolled back
Stop ==
    /\ pc # "stopped"
    /\ Fault
    /\ pc' = "stopped"
    /\ df' = {}
    /\ used' = Faulted
    /\ UNCHANGED <<now, sources, offline_sensors, sent, rows_deleted, errors, raced, undelivered>>

\* the monitor is started again after d minutes: SensorMonitor().main_loop()
Restart(d, limit) ==
    /\ pc = "stopped"
    /\ now + d <= limit
    /\ now' = now + d
    /\ pc' = "start"
    /\ UNCHANGED <<sources, offline_sensors, df, sent, rows_deleted, errors, raced, used, undelivered>>

----------------------------------------------------------------------------
(* The registry: sensors and their operators write sources *)

\* sources is read by the two reconciliation statements alone, so a change is
\* taken before the upsert (while the loop sleeps) or between the two statements
Change == used < MaxEvents /\ pc \in {"sleep", "del"}
Changed == used + 1

Heartbeat(id) ==
    /\ Change
    /\ sources[id].last_heartbeat # now
    /\ sources' = [sources EXCEPT ![id].last_heartbeat = now]
    /\ used' = Changed
    /\ raced' = (raced \/ pc = "del")
    /\ UNCHANGED <<now, offline_sensors, df, pc, sent, rows_deleted, errors, undelivered>>

Reassign(id, m) ==
    /\ Change
    /\ sources[id].master_id # m
    /\ sources' = [sources EXCEPT ![id].master_id = m]
    /\ used' = Changed
    /\ raced' = (raced \/ pc = "del")
    /\ UNCHANGED <<now, offline_sensors, df, pc, sent, rows_deleted, errors, undelivered>>

----------------------------------------------------------------------------
(* Spec: the monitor with failures, stops and a changing registry *)

\* minutes since the last heartbeat of a sensor when the monitor is first started
InitialAges == {0, 10060}
\* minutes the monitor stays down before it is started again
Downtimes == {0, 30}

NoSent == [k \in RowKeys |-> [key \in NotifyKeys |-> 0]]

Init ==
    /\ now = 0
    /\ sources \in [SensorIds -> [master_id : MasterIds \cup {NULL},
                                  last_heartbeat : {0 - a : a \in InitialAges}]]
    /\ offline_sensors = {}
    /\ df = {}
    /\ pc = "start"
    /\ sent = NoSent
    /\ rows_deleted = {}
    /\ errors = {}
    /\ raced = FALSE
    /\ used = 0
    /\ undelivered = {}

Next ==
    \/ Connect
    \/ ConnectFail
    \/ add_offline_sensors_to_table
    \/ AddFail
    \/ del_offline_sensors
    \/ DelFail
    \/ ReadSql
    \/ ReadFail
    \/ CheckAndNotify
    \/ DispatchFails
    \/ update_offline_sensors
    \/ UpdateFail
    \/ Sleep(MaxTime)
    \/ Stop
    \/ \E d \in Downtimes : Restart(d, MaxTime)
    \/ \E id \in SensorIds : Heartbeat(id)
    \/ \E id \in SensorIds, m \in MasterIds \cup {NULL} : Reassign(id, m)

Spec == Init /\ [][Next]_vars

----------------------------------------------------------------------------
(* SpecFn: check_and_notify as a function.  The store holds one row drawn
   from bounded sets; the monitor reads it, applies check_and_notify, and
   applies it once more to the DataFrame the first application returned. *)

\* the thresholds check_and_notify compares minutes_since_last_heartbeat with
Thresholds ==
    {intervals[i].start : i \in 1..Len(intervals)}
    \cup {DailyPeriod * n : n \in 1..DailyCap}
    \cup {WeeklyPeriod * n : n \in 1..(MaxWeekly + 1)}

ElapsedSamples ==
    {45, 90, 400, 1450, 10200} \cup UNION {{t - 1, t, t + 1} : t \in Thresholds}

ColumnRange(key) ==
    IF key \in LatchKeys THEN 0..1
    ELSE IF key \in DailyKeys THEN 0..DailyCap
    ELSE 0..MaxWeekly

ColumnTop(key) ==
    IF key \in LatchKeys THEN 1 ELSE IF key \in DailyKeys THEN DailyCap ELSE MaxWeekly

KeysOf(iv) == {iv.primary_key, iv.secondary_key} \ {None}

\* the notify_* columns of the drawn rows: the columns of one tier take every
\* value, the columns of the other tiers are all unset or all at their top
ColumnSamples ==
    UNION {{[k \in NotifyKeys |-> IF k \in KeysOf(intervals[i]) THEN f[k]
                                  ELSE top * ColumnTop(k)] :
                f \in {g \in [KeysOf(intervals[i]) -> 0..DailyCap] :
                          \A k \in KeysOf(intervals[i]) : g[k] \in ColumnRange(k)},
                top \in {0, 1}} :
           i \in 1..Len(intervals)}

SampleRow(e, cols) ==
    [k \in NotifyKeys \cup {"id_in_sources", "master_id", "last_heartbeat",
                            "minutes_since_last_heartbeat"} |->
        CASE k = "id_in_sources" -> 1
          [] k = "master_id" -> "A"
          [] k = "last_heartbeat" -> 0 - e
          [] k = "minutes_since_last_heartbeat" -> e
          [] OTHER -> cols[k]]

InitFn ==
    /\ now = 0
    /\ \E e \in ElapsedSamples, cols \in ColumnSamples :
          /\ sources = [id \in SensorIds |-> [master_id |-> "A", last_heartbeat |-> 0 - e]]
          /\ offline_sensors = {SampleRow(e, cols)}
    /\ df = {}
    /\ pc = "read"
    /\ sent = NoSent
    /\ rows_deleted = {}
    /\ errors = {}
    /\ raced = FALSE
    /\ used = 0
    /\ undelivered = {}

\* check_and_notify applied again to the DataFrame it returned
Reapply ==
    /\ pc = "update"
    /\ df' = check_and_notify(df)
    /\ sent' = Dispatch(sent, df)
    /\ pc' = "done"
    /\ UNCHANGED <<now, sources, offline_sensors, rows_deleted, errors, raced, used, undelivered>>

NextFn ==
    \/ ReadSql
    \/ CheckAndNotify
    \/ Reapply

SpecFn == InitFn /\ [][NextFn]_vars

----------------------------------------------------------------------------
(* SpecRegular: one sensor silent from t = 0, every sweep succeeds, one sweep
   every 5 minutes.  SpecEpisode: the same sensor, but any sweep may be
   abandoned at its connect, so the successful sweeps come at any multiples
   of 5 minutes. *)

RegularEnd == WeeklyPeriod * RegularWeeks + SweepMinutes

InitSilent ==
    /\ now = 0
    /\ sources = [id \in SensorIds |-> [master_id |-> "A", last_heartbeat |-> 0]]
    /\ offline_sensors = {}
    /\ df = {}
    /\ pc = "start"
    /\ sent = NoSent
    /\ rows_deleted = {}
    /\ errors = {}
    /\ raced = FALSE
    /\ used = 0
    /\ undelivered = {}

NextRegular ==
    \/ Connect
    \/ add_offline_sensors_to_table
    \/ del_offline_sensors
    \/ ReadSql
    \/ CheckAndNotify
    \/ update_offline_sensors
    \/ Sleep(RegularEnd)

SpecRegular == InitSilent /\ [][NextRegular]_vars

SkippedSweep == ConnectRaises /\ UNCHANGED used

NextEpisode ==
    \/ Connect
    \/ SkippedSweep
    \/ add_offline_sensors_to_table
    \/ del_offline_sensors
    \/ ReadSql
    \/ CheckAndNotify
    \/ update_offline_sensors
    \/ Sleep(EpisodeEnd)

SpecEpisode == InitSilent /\ [][NextEpisode]_vars

----------------------------------------------------------------------------
(* SpecRerun: the reconciliation run again.  The store holds the rows an
   earlier sweep left, the registry is drawn around the 30-minute threshold;
   the monitor reconciles, is stopped, is started again at once and
   reconciles again: the same NOW(), the same registry. *)

\* minutes since the last heartbeat of the sensor at the sweep
RerunAges == {10, 29, 30, 31, 50}
\* the same for the rows the store holds from the sweep before
TrackedAges == {40, 50}

\* a row as the sweep 5 minutes earlier left it: the 30-minute latch fired
TrackedRow(id, m, age) ==
    [k \in NotifyKeys \cup {"id_in_sources", "master_id", "last_heartbeat",
                            "minutes_since_last_heartbeat"} |->
        CASE k = "id_in_sources" -> id
          [] k = "master_id" -> m
          [] k = "last_heartbeat" -> 0 - age
          [] k = "minutes_since_last_heartbeat" -> age - SweepMinutes
          [] k = "notify_30m_primary" -> 1
          [] OTHER -> DefaultColumns[k]]

\* the stores drawn: at most one row per key, and no row newer than the
\* registry's heartbeat of its sensor
StoreSamples ==
    {table \in SUBSET {TrackedRow(k[1], k[2], age) : k \in RowKeys, age \in TrackedAges} :
        \A r1 \in table, r2 \in table : KeyOf(r1) = KeyOf(r2) => r1 = r2}

InitRerun ==
    /\ now = 0
    /\ sources \in [SensorIds -> [master_id : MasterIds \cup {NULL},
                                  last_heartbeat : {0 - a : a \in RerunAges}]]
    /\ offline_sensors \in StoreSamples
    /\ \A row \in offline_sensors :
          row["last_heartbeat"] <= sources[row["id_in_sources"]].last_heartbeat
    /\ df = {}
    /\ pc = "start"
    /\ sent = NoSent
    /\ rows_deleted = {}
    /\ errors = {}
    /\ raced = FALSE
    /\ used = 0
    /\ undelivered = {}

\* KeyboardInterrupt when both reconciliation statements have returned
StopReconciled == pc = "read" /\ Stop

NextRerun ==
    \/ Connect
    \/ add_offline_sensors_to_table
    \/ del_offline_sensors
    \/ StopReconciled
    \/ Restart(0, MaxTime)

SpecRerun == InitRerun /\ [][NextRerun]_vars

----------------------------------------------------------------------------
(* The tier table of the specification, written out on its own *)

Lower(key) ==
    CASE key = "notify_30m_primary" -> 30
      [] key \in {"notify_1hr_primary", "notify_1hr_secondary"} -> 60
      [] key \in {"notify_3hr_primary", "notify_3hr_secondary"} -> 180
      [] key \in {"notify_6hr_primary", "notify_6hr_secondary"} -> 360
      [] key \in {"notify_12hr_primary", "notify_12hr_secondary"} -> 720
      [] key \in {"notify_daily_primary", "notify_daily_secondary"} -> 1440
      [] key \in {"notify_weekly_primary", "notify_weekly_secondary"} -> 10080

Upper(key) ==
    CASE key = "notify_30m_primary" -> 60
      [] key \in {"notify_1hr_primary", "notify_1hr_secondary"} -> 180
      [] key \in {"notify_3hr_primary", "notify_3hr_secondary"} -> 360
      [] key \in {"notify_6hr_primary", "notify_6hr_secondary"} -> 720
      [] key \in {"notify_12hr_primary", "notify_12hr_secondary"} -> 1440
      [] key \in {"notify_daily_primary", "notify_daily_secondary"} -> 10080

InWindow(e, key) ==
    e > Lower(key) /\ (key \in WeeklyKeys \/ e <= Upper(key))

\* the field is due: its window holds elapsed and its policy lets it fire
Due(row, key) ==
    /\ InWindow(row["minutes_since_last_heartbeat"], key)
    /\ CASE key \in LatchKeys -> row[key] = 0
         [] key \in DailyKeys ->
                row[key] < 7 /\ row["minutes_since_last_heartbeat"] >= 1440 * (row[key] + 1)
         [] key \in WeeklyKeys ->
                row["minutes_since_last_heartbeat"] >= 10080 * (row[key] + 1)

Plus(b) == IF b THEN 1 ELSE 0

OtherColumns == {"id_in_sources", "master_id", "last_heartbeat", "minutes_since_last_heartbeat"}

----------------------------------------------------------------------------
(* C3 *)

\* C3: one call of check_and_notify adds 1 to exactly the fields that are due
\* (the fields of the one tier whose window holds elapsed, a latch iff it is
\* 0, a daily counter iff it is < 7 and elapsed >= 1440*(n+1), a weekly
\* counter iff elapsed >= 10080*(n+1)), sends one notification for each of
\* them and none for any other, and leaves every other column as it was.
C3_AdvanceChangesExactlyDueFields ==
    pc = "update" =>
        /\ Cardinality(df) = Cardinality(offline_sensors)
        /\ \A row \in offline_sensors : \E d \in df :
              /\ \A k \in OtherColumns : d[k] = row[k]
              /\ \A key \in NotifyKeys :
                    /\ d[key] = row[key] + Plus(Due(row, key))
                    /\ sent[KeyOf(row)][key] = Plus(Due(row, key))
              /\ \E i \in 1..Len(intervals) :
                    {key \in NotifyKeys : d[key] # row[key]} \subseteq KeysOf(intervals[i])

\* a row with notify_daily_primary = 7 at elapsed 10200 has gone through
\* check_and_notify: the daily field stayed, the weekly field fired
C3_Witness ==
    /\ pc = "update"
    /\ \E row \in offline_sensors, d \in df :
          /\ row["minutes_since_last_heartbeat"] = 10200
          /\ row["notify_daily_primary"] = 7
          /\ row["notify_weekly_primary"] = 0
          /\ d["notify_daily_primary"] = 7
          /\ d["notify_weekly_primary"] = 1

----------------------------------------------------------------------------
(* C4 *)

SecondApplication == pc = "update" /\ pc' = "done"

\* C4 as claimed: a second check_and_notify on the DataFrame the first one
\* returned, at the same elapsed, changes no field and sends nothing.
C4_SecondApplicationFiresNothing ==
    [][SecondApplication => (df' = df /\ sent' = sent)]_vars

\* C4 as amended: the second application fires no latch field; it fires a
\* daily or weekly counter exactly when the counter the first application
\* left is still behind elapsed (daily: n < 7 and elapsed >= 1440*(n+1),
\* weekly: elapsed >= 10080*(n+1), inside the tier's window).
C4_SecondApplicationFiresOnlyLaggingCounters ==
    [][SecondApplication =>
        \A d \in df : \E d2 \in df' :
            /\ \A k \in OtherColumns : d2[k] = d[k]
            /\ \A key \in NotifyKeys :
                  LET again == key \notin LatchKeys /\ Due(d, key)
                  IN  /\ d2[key] = d[key] + Plus(again)
                      /\ sent'[KeyOf(d)][key] = sent[KeyOf(d)][key] + Plus(again)]_vars

\* both applications fired the same daily counter, and a latch the first one
\* set stayed as it was
C4_Witness ==
    /\ pc = "done"
    /\ \E row \in offline_sensors, d \in df :
          /\ row["minutes_since_last_heartbeat"] = 2880
          /\ row["notify_daily_primary"] = 0
          /\ d["notify_daily_primary"] = 2
          /\ sent[KeyOf(row)]["notify_daily_primary"] = 2

----------------------------------------------------------------------------
(* C1 *)

\* C1: over the successful sweeps of one unbroken offline episode every latch
\* field fires at most once and only at an elapsed inside its window; for a
\* sensor silent from t = 0, a successful sweep inside a tier's window leaves
\* the tier's latch fields set, each with exactly one notification sent.
C1_LatchFiresOncePerEpisode ==
    /\ \A k \in RowKeys, key \in LatchKeys : sent[k][key] <= 1
    /\ \A row \in offline_sensors, key \in LatchKeys :
          /\ row[key] = sent[KeyOf(row)][key] \/ pc = "update"
          /\ (pc = "sleep" /\ errors = {}
                /\ InWindow(row["minutes_since_last_heartbeat"], key))
             => (row[key] = 1 /\ sent[KeyOf(row)][key] = 1)
    /\ pc = "update" =>
          \A row \in offline_sensors, d \in df, key \in LatchKeys :
              (KeyOf(d) = KeyOf(row) /\ d[key] # row[key])
                  => InWindow(row["minutes_since_last_heartbeat"], key)

\* the sensor has been silent for 1440 minutes and every latch field has
\* fired, each once
C1_Witness ==
    /\ pc = "sleep"
    /\ \E row \in offline_sensors :
          /\ row["minutes_since_last_heartbeat"] = 1440
          /\ \A key \in LatchKeys : row[key] = 1 /\ sent[KeyOf(row)][key] = 1

----------------------------------------------------------------------------
(* C5 *)

\* the sweep's check_and_notify has just fired column key of the stored row
FiredNow(row, key) ==
    \E d \in df : KeyOf(d) = KeyOf(row) /\ d[key] = row[key] + 1

\* C5 as claimed: with a sweep every 5 minutes the daily counters are
\* incremented at exactly the sweeps where elapsed is 1440, 2880, 4320, 5760,
\* 7200, 8640 and 10080.
C5_DailyFiresAtPeriodBoundaries ==
    pc = "update" =>
        \A row \in offline_sensors, key \in DailyKeys :
            FiredNow(row, key) <=>
                row["minutes_since_last_heartbeat"] \in {1440 * n : n \in 1..7}

\* C5 as amended: the daily counters are incremented at exactly the sweeps
\* where elapsed is 1445 (the first sweep past 1440), 2880, 4320, 5760, 7200,
\* 8640 and 10080: seven fires, none afterwards, primary and secondary alike.
C5_DailyFiresAfter1440ThenAtBoundaries ==
    /\ pc = "update" =>
          \A row \in offline_sensors, key \in DailyKeys :
              FiredNow(row, key) <=>
                  row["minutes_since_last_heartbeat"] \in
                      {1445} \cup {1440 * n : n \in 2..7}
    /\ pc = "sleep" =>
          \A row \in offline_sensors, key \in DailyKeys :
              LET e == row["minutes_since_last_heartbeat"]
                  n == IF e <= 1440 THEN 0 ELSE IF e >= 10080 THEN 7 ELSE e \div 1440
              IN  row[key] = n /\ sent[KeyOf(row)][key] = n

\* a week of daily notifications is over: seven were sent and the sweeps
\* that followed sent no more
C5_Witness ==
    /\ pc = "sleep"
    /\ \E row \in offline_sensors :
          /\ row["minutes_since_last_heartbeat"] = 10200
          /\ \A key \in DailyKeys : row[key] = 7 /\ sent[KeyOf(row)][key] = 7

----------------------------------------------------------------------------
(* C6 *)

\* C6 as claimed: with regular sweeps the weekly counter reaches k at the
\* first sweep whose elapsed is >= 10080*k, so after every sweep it equals
\* elapsed div 10080 and consecutive fires are 10080 minutes apart.
C6_WeeklyReachesKAtKWeeks ==
    pc = "sleep" =>
        \A row \in offline_sensors, key \in WeeklyKeys :
            row[key] = row["minutes_since_last_heartbeat"] \div 10080

\* C6 as amended: the weekly counter is uncapped; it reaches 1 at the first
\* sweep whose elapsed is > 10080 (10085 with a sweep every 5 minutes) and
\* k >= 2 at the first sweep whose elapsed is >= 10080*k, so the first two
\* fires are 10075 minutes apart and the later ones 10080.
C6_WeeklyFiresAfter10080ThenEveryWeek ==
    /\ pc = "update" =>
          \A row \in offline_sensors, key \in WeeklyKeys :
              FiredNow(row, key) <=>
                  LET e == row["minutes_since_last_heartbeat"]
                  IN  e = 10085 \/ (e >= 20160 /\ e % 10080 = 0)
    /\ pc = "sleep" =>
          \A row \in offline_sensors, key \in WeeklyKeys :
              LET e == row["minutes_since_last_heartbeat"]
                  n == IF e <= 10080 THEN 0 ELSE e \div 10080
              IN  row[key] = n /\ sent[KeyOf(row)][key] = n

\* the third weekly notification has been sent
C6_Witness ==
    /\ pc = "sleep"
    /\ \E row \in offline_sensors :
          /\ row["minutes_since_last_heartbeat"] = 30240
          /\ \A key \in WeeklyKeys : row[key] = 3 /\ sent[KeyOf(row)][key] = 3

----------------------------------------------------------------------------
(* C2 *)

\* C2: over any sequence of sweeps, abandoned and interrupted ones included,
\* a latch tier of a record is notified at most once per offline episode.
C2_LatchNotifiedOncePerEpisode ==
    \A k \in RowKeys, key \in LatchKeys : sent[k][key] <= 1

----------------------------------------------------------------------------
(* C7 *)

HasRow(table, k) == \E row \in table : KeyOf(row) = k

\* C7: a record created for a key whose record reconciliation deleted before
\* has all thirteen tier fields at zero.
C7_RecreatedRecordStartsAtZero ==
    [][\A old \in rows_deleted :
          (~HasRow(offline_sensors, KeyOf(old)) /\ HasRow(offline_sensors', KeyOf(old)))
              => \A row \in offline_sensors' :
                    KeyOf(row) = KeyOf(old) => \A key \in NotifyKeys : row[key] = 0]_vars

\* a record that was deleted with a tier field set has just been created anew
C7_Witness ==
    /\ pc = "del"
    /\ \E old \in rows_deleted, row \in offline_sensors :
          /\ KeyOf(row) = KeyOf(old)
          /\ \E key \in NotifyKeys : old[key] > 0
          /\ row["last_heartbeat"] > old["last_heartbeat"]
          /\ \A key \in NotifyKeys : row[key] = 0

----------------------------------------------------------------------------
(* C8 *)

Elapsed(id) == now - sources[id].last_heartbeat

Tracked(id) ==
    \E row \in offline_sensors :
        row["id_in_sources"] = id /\ row["master_id"] = sources[id].master_id

\* both reconciliation statements ran without error against one registry
Reconciled == pc = "read" /\ errors = {} /\ ~raced

\* C8 as claimed: after a reconciliation without error a sensor with a
\* masterId has a record iff its elapsed time is greater than 30 minutes.
C8_RecordIffElapsedOver30 ==
    Reconciled =>
        \A id \in SensorIds :
            sources[id].master_id # NULL => (Tracked(id) <=> Elapsed(id) > 30)

\* C8 as amended: after a reconciliation without error a sensor with a
\* masterId and elapsed > 30 has a record keyed (sensorId, masterId), and a
\* sensor that has such a record has elapsed >= 30: at exactly 30 minutes a
\* record is neither created nor deleted.
C8_RecordIfOver30AndOnlyIfAtLeast30 ==
    Reconciled =>
        \A id \in SensorIds :
            sources[id].master_id # NULL =>
                /\ Elapsed(id) > 30 => Tracked(id)
                /\ Tracked(id) => Elapsed(id) >= 30

\* a reconciliation has left the record of a sensor whose elapsed time is
\* exactly 30 minutes
C8_Witness ==
    /\ Reconciled
    /\ \E id \in SensorIds :
          sources[id].master_id # NULL /\ Elapsed(id) = 30 /\ Tracked(id)

----------------------------------------------------------------------------
(* C9 *)

\* C9: the store holds at most one record per sensor id.
C9_OneRecordPerSensor ==
    \A r1 \in offline_sensors, r2 \in offline_sensors :
        r1["id_in_sources"] = r2["id_in_sources"] => r1 = r2

----------------------------------------------------------------------------
(* C10 *)

\* C10: while a record persists no tier field decreases, and the upsert of an
\* existing record leaves its thirteen tier fields as they were.
C10_TierFieldsNeverDecrease ==
    [][\A row \in offline_sensors, row2 \in offline_sensors' :
          KeyOf(row2) = KeyOf(row) =>
              \A key \in NotifyKeys :
                  /\ row2[key] >= row[key]
                  /\ pc = "add" => row2[key] = row[key]]_vars

\* the upsert has refreshed a record that holds a fired tier field, and a
\* later sweep has advanced it further
C10_Witness ==
    /\ pc = "del"
    /\ \E row \in offline_sensors :
          /\ row["notify_daily_primary"] >= 2
          /\ row["minutes_since_last_heartbeat"] = Elapsed(row["id_in_sources"])
          /\ row["master_id"] = sources[row["id_in_sources"]].master_id

----------------------------------------------------------------------------
(* C11 *)

\* C11: a reconciliation (upsert, then delete) run a second time against the
\* same registry at the same evaluation time inserts no record, deletes no
\* record and changes no field of any record.
C11_SecondReconcileChangesNothing ==
    [][(used > 0 /\ pc \in {"add", "del"}) =>
          (offline_sensors' = offline_sensors /\ rows_deleted' = rows_deleted)]_vars

\* the first reconciliation refreshed a record to 50 minutes, the second one
\* has run and the record is there with its latch
C11_Witness ==
    /\ pc = "read"
    /\ used > 0
    /\ \E row \in offline_sensors :
          /\ row["minutes_since_last_heartbeat"] = 50
          /\ row["notify_30m_primary"] = 1

----------------------------------------------------------------------------
(* C12 *)

\* C12: when the dispatch of a fired notification fails, the field is not
\* persisted as advanced: after that sweep the stored field still has the
\* value it had before it fired.
C12_FailedDispatchNotPersisted ==
    pc = "sleep" =>
        \A u \in undelivered : \A row \in offline_sensors :
            KeyOf(row) = u.key => row[u.column] = u.before

----------------------------------------------------------------------------
(* C13 *)

\* C13: a shutdown signal takes effect only when no sweep is in flight: the
\* process stops from the top of the loop or from the sleep, never from a step
\* of a sweep, and so never between the dispatch and the persist.
C13_ShutdownWaitsForSweep ==
    [][(pc' = "stopped" /\ pc # "stopped") => pc \in {"start", "sleep"}]_vars

----------------------------------------------------------------------------
(* C14 *)

\* C14: an error raised inside a sweep ends at most that sweep: the step that
\* logs it leaves the process in the loop (at the next statement of the sweep
\* or at the sleep), the sleep is left only for the next sweep, 5 minutes
\* later, or by a shutdown, and the step that terminates the process is never
\* one that logs an error.
C14_ErrorAbandonsOnlyItsSweep ==
    [][/\ (errors' # errors /\ errors' # {}) => pc' \in {"del", "read", "sleep"}
       /\ (pc = "sleep" /\ pc' # "sleep") =>
              (pc' = "stopped" \/ (pc' = "start" /\ now' = now + SweepMinutes))
       /\ (pc' = "stopped" /\ pc # "stopped") => errors' = errors]_vars

\* a sweep logged two errors (the upsert, then the read) and the loop has come
\* round to start the next sweep
C14_Witness ==
    /\ pc = "start"
    /\ now > 0
    /\ errors = {"add", "read"}

----------------------------------------------------------------------------
(* C15 *)

\* C15: one sweep at a time: a sweep starts only from the sleep or from a
\* start of the process, with no DataFrame of an earlier sweep left; its
\* first statement follows the connect; and the store is changed only by the
\* upsert, the delete and the batch update of that sweep, in this order.
C15_OneSweepAtATime ==
    [][/\ (pc' = "start" /\ pc # "start") => (pc \in {"sleep", "stopped"} /\ df = {})
       /\ (pc' = "add" /\ pc # "add") => pc = "start"
       /\ offline_sensors' # offline_sensors =>
              <<pc, pc'>> \in {<<"add", "del">>, <<"del", "read">>, <<"update", "sleep">>}]_vars

\* the second sweep is running on the record the first one persisted
C15_Witness ==
    /\ pc = "del"
    /\ now = SweepMinutes
    /\ \E row \in offline_sensors :
          /\ row["notify_daily_primary"] = 1
          /\ row["minutes_since_last_heartbeat"] = Elapsed(row["id_in_sources"])

----------------------------------------------------------------------------
(* C16 *)

\* C16: in a sweep where a reconciliation statement fails, no reconciliation
\* statement of that sweep commits a change to the store.
C16_FailedReconcileCommitsNothing ==
    [][(pc \in {"add", "del"} /\ errors' \cap {"add", "del"} # {}) =>
          offline_sensors' = offline_sensors]_vars

----------------------------------------------------------------------------
(* C17 *)

\* C17: after a reconciliation without error every record of the store has
\* the registry's current last_heartbeat of its sensor, and elapsed minutes
\* equal to now minus that last_heartbeat.
C17_EveryRecordRefreshed ==
    Reconciled =>
        \A row \in offline_sensors :
            /\ row["last_heartbeat"] = sources[row["id_in_sources"]].last_heartbeat
            /\ row["minutes_since_last_heartbeat"] = now - row["last_heartbeat"]

----------------------------------------------------------------------------
(* C18 *)

\* C18: when the batch of per-record updates fails, the sweep changes no
\* record of the store: every tier field keeps the value it had before the
\* batch, whichever statement of the batch raised.
C18_FailedBatchChangesNoRecord ==
    [][(pc = "update" /\ "update" \in errors') => offline_sensors' = offline_sensors]_vars

\* a batch for two records has failed: both records have a notification sent
\* that the store does not show
C18_Witness ==
    /\ pc = "sleep"
    /\ "update" \in errors
    /\ Cardinality(offline_sensors) = 2
    /\ \A row \in offline_sensors :
          row["notify_daily_primary"] < sent[KeyOf(row)]["notify_daily_primary"]

----------------------------------------------------------------------------
(* C19 *)

\* the store holds the tier fields of DataFrame row d
Committed(table, d) ==
    \E row \in table :
        KeyOf(row) = KeyOf(d) /\ \A key \in NotifyKeys : row[key] = d[key]

\* C19: when the update of one record fails in the persist step, the advanced
\* fields of every other record of the sweep are committed: at most one
\* record of the DataFrame is missing from the store afterwards.
C19_OtherRecordsStillCommitted ==
    [][(pc = "update" /\ "update" \in errors') =>
          Cardinality({d \in df : ~Committed(offline_sensors', d)}) <= 1]_vars

----------------------------------------------------------------------------
(* C20 *)

Unset(row) == \A key \in NotifyKeys : row[key] = 0

====
